---------------------------- MODULE Spec2Model ----------------------------
(***************************************************************************)
(* A model of the "much" conference-hall server: the shared world State    *)
(* (src/src/world/state.rs), the login handshake and the per-connection    *)
(* session loop (src/src/lib.rs), commands (src/src/world/command.rs) and  *)
(* message rendering (src/src/world/message.rs).                           *)
(*                                                                         *)
(* Text typed by a client is a sequence of one-character strings, so that  *)
(* trimming and comparison are computed.  A line written by the server is  *)
(* a sequence whose literal fragments of a format! are single tokens and   *)
(* whose interpolated pieces are the characters of the interpolated text.  *)
(***************************************************************************)
EXTENDS Integers, Sequences, FiniteSets, TLC

(***************************************************************************)
(* Bounds of the model.                                                    *)
(***************************************************************************)
\* accepted TCP connections (one task each, tcp_serve)
NumConns == 2
\* invalid lines a session may send to one prompt that has no retry cap, and
\* confirmation mismatches it may cause
MaxRetries == 1
\* a client types a command only while every channel holds fewer messages
MaxQueue == 1

Conns == 1..NumConns

\* Option::None of a string, and of a struct
None == "None"
NoneR == [none |-> TRUE]

(***************************************************************************)
(* Text.                                                                   *)
(***************************************************************************)
IsSpace(c) == c \in {" ", "\t"}

RECURSIVE TrimStart(_)
TrimStart(s) ==
    IF s # <<>> /\ IsSpace(Head(s)) THEN TrimStart(Tail(s)) ELSE s

RECURSIVE TrimEnd(_)
TrimEnd(s) ==
    IF s # <<>> /\ IsSpace(s[Len(s)]) THEN TrimEnd(SubSeq(s, 1, Len(s) - 1)) ELSE s

\* str::trim
Trim(s) == TrimEnd(TrimStart(s))

\* str::contains(char)
Contains(s, c) == \E i \in 1..Len(s) : s[i] = c

(***************************************************************************)
(* What clients type.                                                      *)
(***************************************************************************)
NameA == <<"@", "a">>
NameB == <<"@", "b">>
IdLines == {NameA, <<" ">> \o NameB, <<"b">>, <<" ">>}

PwGood == <<"a", "a", "a", "a", "a", "a", "a", "a">>
PwLines == {PwGood, PwGood \o <<" ">>, <<"b", "b">>}

ShutdownStr == <<"s", "h", "u", "t", "d", "o", "w", "n">>
LogoutStr == <<"l", "o", "g", "o", "u", "t">>
CmdLines == {ShutdownStr, <<" ">> \o LogoutStr, <<"h", "i", " ">>}

\* rand::thread_rng().fill_bytes(&mut salt), base64-encoded
Salts == {"salt1"}

(***************************************************************************)
(* world/room.rs is not part of the sources at hand: lib.rs and state.rs   *)
(* use RoomId and INITIAL_LOC from it.                                     *)
(***************************************************************************)
INITIAL_LOC == 0

(***************************************************************************)
(* HashMap helpers.                                                        *)
(***************************************************************************)
Insert(m, k, v) == [x \in DOMAIN m \cup {k} |-> IF x = k THEN v ELSE m[x]]
Remove(m, k) == [x \in DOMAIN m \ {k} |-> m[x]]
EmptyMap == [x \in {} |-> None]

(***************************************************************************)
(* Passwords: argon2::hash_encoded and argon2::verify_encoded.  The        *)
(* encoded hash determines the salt and a digest of the password; it       *)
(* verifies exactly the password it was made from.                         *)
(***************************************************************************)
hash_encoded(password, salt) == [salt |-> salt, digest |-> <<"argon2">> \o password]
verify_encoded(encoded, password) == encoded.digest = <<"argon2">> \o password

(***************************************************************************)
(* Connection, Person, PersonRecord, Message.                              *)
(***************************************************************************)
TCP(addr) == [kind |-> "TCP", addr |-> addr]

\* Person::new
PersonNew(rec, conn) == [id |-> rec.id, name |-> rec.name, loc |-> rec.loc, conn |-> conn]

MsgArrive(id, name, loc) == [type |-> "Arrive", id |-> id, name |-> name, loc |-> loc]
MsgDepart(id, name, loc) == [type |-> "Depart", id |-> id, name |-> name, loc |-> loc]
MsgSay(speaker, speaker_name, loc, text) ==
    [type |-> "Say", speaker |-> speaker, speaker_name |-> speaker_name,
     loc |-> loc, text |-> text]
\* Message::Logout is sent by State::logout and matched by process; the enum
\* in world/message.rs at hand does not list it.
MsgLogout == [type |-> "Logout"]


(***************************************************************************)
(* The shared State (world/state.rs).  A value st of State is a record of  *)
(* its fields; queues maps a PersonId to a MessageQueueTX, which is named  *)
(* by the connection whose MessageQueueRX it feeds.  ch[c] is the content  *)
(* of connection c's channel; open is the set of connections whose         *)
(* receiver has not been dropped.                                          *)
(***************************************************************************)
\* State::new
StateNew ==
    [next_id |-> 0,
     people |-> EmptyMap,
     names |-> EmptyMap,
     rooms |-> [r \in {INITIAL_LOC} |-> {}],
     peers |-> EmptyMap,
     queues |-> EmptyMap]

\* UnboundedSender::send: Err when the receiver was dropped
Send(ch, open, tx, message) ==
    IF tx \in open THEN [ch EXCEPT ![tx] = Append(@, message)] ELSE ch

\* the loop given up at the first occupant that cannot be sent to
RECURSIVE RoomcastToAbort(_, _, _, _, _)
RoomcastToAbort(people, queues, ch, open, message) ==
    IF people = {} THEN ch
    ELSE LET p == CHOOSE x \in people : TRUE
         IN  IF p.id \in DOMAIN queues /\ queues[p.id] \in open
             THEN RoomcastToAbort(people \ {p}, queues,
                                  Send(ch, open, queues[p.id], message), open, message)
             ELSE ch

\* the loop of State::roomcast over the people of the room
RECURSIVE RoomcastTo(_, _, _, _, _)
RoomcastTo(people, queues, ch, open, message) ==
    IF people = {} THEN ch
    ELSE LET p == CHOOSE x \in people : TRUE
             sent == IF p.id \in DOMAIN queues
                     THEN Send(ch, open, queues[p.id], message)
                     ELSE ch
         IN  RoomcastTo(people \ {p}, queues, sent, open, message)

\* State::roomcast: the channels after it
roomcast(st, ch, open, loc, message) ==
    IF loc \notin DOMAIN st.rooms THEN ch
    ELSE RoomcastTo(st.rooms[loc], st.queues, ch, open, message)

\* State::broadcast: the channels after it
RECURSIVE BroadcastTo(_, _, _, _, _)
BroadcastTo(ids, queues, ch, open, message) ==
    IF ids = {} THEN ch
    ELSE LET i == CHOOSE x \in ids : TRUE
         IN  BroadcastTo(ids \ {i}, queues, Send(ch, open, queues[i], message),
                         open, message)

broadcast(st, ch, open, message) ==
    BroadcastTo(DOMAIN st.queues, st.queues, ch, open, message)

\* fresh_id without the increment
fresh_idStuck(st) == [id |-> st.next_id, st |-> st]

\* State::fresh_id
fresh_id(st) == [id |-> st.next_id, st |-> [st EXCEPT !.next_id = @ + 1]]

\* new_person without its assert!: the later record takes the name over
new_personNoAssert(st, name, password, salt) ==
    LET f == fresh_id(st)
        person == [id |-> f.id, loc |-> INITIAL_LOC, name |-> name, salt |-> salt,
                   password |-> hash_encoded(password, salt)]
    IN  [panic |-> FALSE,
         st |-> [f.st EXCEPT !.names = Insert(@, name, f.id),
                             !.people = Insert(@, f.id, person)],
         person |-> person]

\* new_person with the assert! ahead of fresh_id
new_personCheckFirst(st, name, password, salt) ==
    LET f == fresh_id(st)
        person == [id |-> f.id, loc |-> INITIAL_LOC, name |-> name, salt |-> salt,
                   password |-> hash_encoded(password, salt)]
    IN  IF name \in DOMAIN st.names
        THEN [panic |-> TRUE, st |-> st, person |-> NoneR]
        ELSE [panic |-> FALSE,
              st |-> [f.st EXCEPT !.names = Insert(@, name, f.id),
                                  !.people = Insert(@, f.id, person)],
              person |-> person]

\* State::new_person: panic is the failed assert!; the id was taken before it
new_person(st, name, password, salt) ==
    LET f == fresh_id(st)
        person == [id |-> f.id, loc |-> INITIAL_LOC, name |-> name, salt |-> salt,
                   password |-> hash_encoded(password, salt)]
    IN  IF name \in DOMAIN f.st.names
        THEN [panic |-> TRUE, st |-> f.st, person |-> NoneR]
        ELSE [panic |-> FALSE,
              st |-> [f.st EXCEPT !.names = Insert(@, name, f.id),
                                  !.people = Insert(@, f.id, person)],
              person |-> person]

\* State::person_by_name
person_by_name(st, name) ==
    IF name \notin DOMAIN st.names THEN NoneR
    ELSE IF st.names[name] \in DOMAIN st.people THEN st.people[st.names[name]]
    ELSE NoneR

\* register_connection filing the entries under the connection, not the id
register_connectionByConn(st, id, conn, tx) ==
    [st EXCEPT !.peers = Insert(@, conn.addr, conn), !.queues = Insert(@, conn.addr, tx)]

\* State::register_connection
register_connection(st, id, conn, tx) ==
    [st EXCEPT !.peers = Insert(@, id, conn), !.queues = Insert(@, id, tx)]

\* unregister_connection leaving the queue behind
unregister_connectionKeepQueue(st, id) == [st EXCEPT !.peers = Remove(@, id)]

\* State::unregister_connection
unregister_connection(st, id) ==
    [st EXCEPT !.peers = Remove(@, id), !.queues = Remove(@, id)]

\* depart removing by id, so every Person of the identity
departById(st, ch, open, p) ==
    IF p.loc \notin DOMAIN st.rooms THEN [st |-> st, ch |-> ch]
    ELSE LET st1 == [st EXCEPT !.rooms[p.loc] = {x \in @ : x.id # p.id}]
         IN  [st |-> st1,
              ch |-> roomcast(st1, ch, open, p.loc, MsgDepart(p.id, p.name, p.loc))]

\* State::depart
depart(st, ch, open, p) ==
    IF p.loc \notin DOMAIN st.rooms THEN [st |-> st, ch |-> ch]
    ELSE LET st1 == [st EXCEPT !.rooms[p.loc] = @ \ {p}]
         IN  [st |-> st1,
              ch |-> roomcast(st1, ch, open, p.loc, MsgDepart(p.id, p.name, p.loc))]

\* State::arrive: panic is the expect of room_mut, on the old room before
\* anything is done, or on the new room after the old one was left; p is
\* the caller's Person
arrive(st, ch, open, p, loc) ==
    LET st1 == IF p.loc # loc THEN [st EXCEPT !.rooms[p.loc] = @ \ {p}] ELSE st
        p1 == [p EXCEPT !.loc = loc]
        st2 == [st1 EXCEPT !.rooms[loc] = @ \cup {p1}]
    IN  IF p.loc # loc /\ p.loc \notin DOMAIN st.rooms
        THEN [panic |-> TRUE, st |-> st, ch |-> ch, p |-> p]
        ELSE IF loc \notin DOMAIN st.rooms
        THEN [panic |-> TRUE, st |-> st1, ch |-> ch, p |-> p1]
        ELSE [panic |-> FALSE, st |-> st2,
              ch |-> roomcast(st2, ch, open, loc, MsgArrive(p1.id, p1.name, loc)),
              p |-> p1]

\* logout that forgets to remove the queue it sends the Logout on
logoutKeepQueue(st, ch, open, p) ==
    LET d == depart(st, ch, open, p)
    IN  IF p.id \notin DOMAIN d.st.peers THEN d
        ELSE LET conn == d.st.peers[p.id]
                 st1 == [d.st EXCEPT !.peers = Remove(@, p.id)]
             IN  IF p.id \notin DOMAIN st1.queues THEN [st |-> st1, ch |-> d.ch]
                 ELSE [st |-> st1,
                       ch |-> IF conn.kind = "TCP"
                              THEN Send(d.ch, open, st1.queues[p.id], MsgLogout)
                              ELSE d.ch]

\* State::logout
logout(st, ch, open, p) ==
    LET d == depart(st, ch, open, p)
    IN  IF p.id \notin DOMAIN d.st.peers THEN d
        ELSE LET conn == d.st.peers[p.id]
                 st1 == [d.st EXCEPT !.peers = Remove(@, p.id)]
             IN  IF p.id \notin DOMAIN st1.queues THEN [st |-> st1, ch |-> d.ch]
                 ELSE LET q == st1.queues[p.id]
                          st2 == [st1 EXCEPT !.queues = Remove(@, p.id)]
                      IN  [st |-> st2,
                           ch |-> IF conn.kind = "TCP"
                                  THEN Send(d.ch, open, q, MsgLogout)
                                  ELSE d.ch]

(***************************************************************************)
(* Message::render (world/message.rs).                                     *)
(***************************************************************************)
\* another parting text
RenderLogoutBye == <<"Goodbye.">>

\* the arm for Message::Logout, which the enum at hand lacks
RenderLogout == <<"You have logged out.">>

\* render without the test for the receiver being the speaker
renderSayByName(message, receiver) ==
    CASE message.type = "Arrive" ->
            IF message.id = receiver THEN <<>>
            ELSE message.name \o <<" arrived.">>
      [] message.type = "Depart" ->
            IF message.id = receiver THEN <<>>
            ELSE message.name \o <<" left.">>
      [] message.type = "Say" ->
            message.speaker_name \o <<" says, '">> \o message.text \o <<"'">>
      [] OTHER -> RenderLogout

\* render without the test for the receiver being the one who arrived
renderNoSelf(message, receiver) ==
    CASE message.type = "Arrive" -> message.name \o <<" arrived.">>
      [] message.type = "Depart" ->
            IF message.id = receiver THEN <<>>
            ELSE message.name \o <<" left.">>
      [] message.type = "Say" ->
            IF message.speaker = receiver
            THEN <<"You say, '">> \o message.text \o <<"'">>
            ELSE message.speaker_name \o <<" says, '">> \o message.text \o <<"'">>
      [] OTHER -> RenderLogout

\* Message::render
render(message, receiver) ==
    CASE message.type = "Arrive" ->
            IF message.id = receiver THEN <<>>
            ELSE message.name \o <<" arrived.">>
      [] message.type = "Depart" ->
            IF message.id = receiver THEN <<>>
            ELSE message.name \o <<" left.">>
      [] message.type = "Say" ->
            IF message.speaker = receiver
            THEN <<"You say, '">> \o message.text \o <<"'">>
            ELSE message.speaker_name \o <<" says, '">> \o message.text \o <<"'">>
      [] OTHER -> RenderLogout

(***************************************************************************)
(* Command::parse (world/command.rs).                                      *)
(***************************************************************************)
\* Command::parse as it was before Logout (game/command.rs 38-48)
parseGame(line) ==
    LET t == Trim(line)
    IN  IF t = ShutdownStr THEN [tag |-> "shutdown"]
        ELSE [tag |-> "say", text |-> t]

\* Command::parse
parse(line) ==
    LET t == Trim(line)
    IN  IF t = ShutdownStr THEN [tag |-> "shutdown"]
        ELSE IF t = LogoutStr THEN [tag |-> "logout"]
        ELSE [tag |-> "say", text |-> t]

(***************************************************************************)
(* The login prompts (lib.rs, prompt and login).                           *)
(***************************************************************************)
\* failed_tries >= 3
MaxPasswordTries == 3
\* password.len() >= 8
MinPasswordLen == 8

PromptText(kind) ==
    CASE kind = "Identifier" -> <<"What is your email address or Twitter handle? ">>
      [] kind = "Password" -> <<"Password: ">>
      [] kind = "NewPassword" -> <<"Please enter a password: ">>

RepromptText(kind) ==
    CASE kind = "Identifier" -> <<"Please enter a valid email address or Twitter handle.">>
      [] kind = "Password" -> <<"Password incorrect.">>
      [] kind = "NewPassword" ->
            <<"That is not a valid password. It should be at least 8 characters.">>

NewHere == <<"You must be new here!">>
ReEnter == <<"Please re-enter your password: ">>
DontMatch == <<"Passwords don't match.">>
LoggedInAs(name) == <<"Logged in as ">> \o name \o <<"...">>

\* the closure valid of each prompt; found is the PersonRecord login looked up
\* validity with any non-empty new password let through
ValidAnyLength(kind, found, line) ==
    CASE kind = "Identifier" -> line # <<>> /\ Contains(line, "@")
      [] kind = "Password" -> verify_encoded(found.password, line)
      [] kind = "NewPassword" -> Len(line) >= 1

\* the closure valid of each prompt, applied to the trimmed line
Valid(kind, found, line) ==
    CASE kind = "Identifier" -> line # <<>> /\ Contains(line, "@")
      [] kind = "Password" -> verify_encoded(found.password, line)
      [] kind = "NewPassword" -> Len(line) >= MinPasswordLen

\* check_tries with > for >=
CheckTriesOffByOne(kind, failed_tries) ==
    IF kind = "Password" /\ failed_tries > MaxPasswordTries
    THEN "TooManyPasswordAttempts"
    ELSE None

\* the closure check_tries of each prompt: the error, or None
CheckTries(kind, failed_tries) ==
    IF kind = "Password" /\ failed_tries >= MaxPasswordTries
    THEN "TooManyPasswordAttempts"
    ELSE None

\* What lines.next() yields: Some(Ok(line)), Some(Err(e)) or None.
ItemLine(line) == [kind |-> "Line", line |-> line]
ItemError == [kind |-> "Error"]
ItemEof == [kind |-> "Eof"]

\* One turn of the loop of prompt after its prompt was sent: item is what
\* lines.next() yields.  The result is
\* Ok (prompt returns the trimmed line), Err (prompt returns the error), or
\* Again (the reprompt and the prompt are sent and the loop goes on).
\* a turn of prompt that tests and returns the line as it was read
PromptTurnNoTrim(kind, found, num_tries, item) ==
    IF item.kind # "Line"
    THEN [result |-> "Err", error |-> "LoginAborted", num_tries |-> num_tries]
    ELSE IF Valid(kind, found, item.line)
    THEN [result |-> "Ok", line |-> item.line, num_tries |-> num_tries]
    ELSE IF CheckTries(kind, num_tries + 1) # None
    THEN [result |-> "Err", error |-> CheckTries(kind, num_tries + 1),
          num_tries |-> num_tries + 1]
    ELSE [result |-> "Again", num_tries |-> num_tries + 1]

PromptTurn(kind, found, num_tries, item) ==
    IF item.kind # "Line"
    THEN [result |-> "Err", error |-> "LoginAborted", num_tries |-> num_tries]
    ELSE LET line == Trim(item.line)
         IN  IF Valid(kind, found, line)
             THEN [result |-> "Ok", line |-> line, num_tries |-> num_tries]
             ELSE IF CheckTries(kind, num_tries + 1) # None
             THEN [result |-> "Err", error |-> CheckTries(kind, num_tries + 1),
                   num_tries |-> num_tries + 1]
             ELSE [result |-> "Again", num_tries |-> num_tries + 1]

(***************************************************************************)
(* The state of the server.                                                *)
(*   state    the shared State behind the Mutex                            *)
(*   chan     chan[c]: the messages held by the channel of connection c    *)
(*   sess     sess[c]: the task process(state, stream, addr) of connection *)
(*            c: where it stands (pc) and its local variables              *)
(*   running  FALSE once std::process::exit was called                     *)
(*   created  the PersonRecords new_person returned, in order (history)    *)
(***************************************************************************)
VARIABLES state, chan, sess, running, created

vars == <<state, chan, sess, running, created>>

\* The local variables of a task.  num_tries is the count of the prompt in
\* progress or, once login is over, of its last prompt.  Three fields record
\* what the task did: error is the error it returned, or the one it logged
\* in the turn of the loop just taken; last_line is the last line it wrote
\* to its client; arrived holds from its call of arrive to its call of
\* depart.  mismatches counts the confirmations that did not match.
SessNew ==
    [pc |-> "Accepted", name |-> <<>>, found |-> NoneR, password1 |-> <<>>,
     password2 |-> <<>>,
     num_tries |-> 0, mismatches |-> 0, person |-> NoneR, cmd |-> NoneR,
     error |-> None, last_line |-> <<"">>, arrived |-> FALSE]

Init ==
    /\ state = StateNew
    /\ chan = [c \in Conns |-> <<>>]
    /\ sess = [c \in Conns |-> SessNew]
    /\ running = TRUE
    /\ created = <<>>

\* the connections whose TCPPeer, and so whose MessageQueueRX, exists
Open == {c \in Conns : sess[c].pc \in {"Arriving", "Loop", "Command", "Cleanup"}}

\* the tasks that have returned or died
Ended(c) == sess[c].pc \in {"Aborted", "Panicked", "Failed", "LoggedOut", "Disconnected"}

\* login has returned: its locals are gone
LoginOver(me) ==
    [me EXCEPT !.name = <<>>, !.found = NoneR, !.password1 = <<>>, !.password2 = <<>>,
               !.mismatches = 0]

\* lines.send(..).await? for each of lines in turn: all are written and the
\* task goes on as next, or the send after the first n fails and the task
\* returns that error, its pc being failPc.
SendAll(c, lines, next, failPc) ==
    \E n \in 0..Len(lines) :
        sess' = [sess EXCEPT ![c] =
                    IF n = Len(lines)
                    THEN [next EXCEPT !.last_line = lines[Len(lines)]]
                    ELSE [LoginOver(sess[c]) EXCEPT
                             !.pc = failPc, !.error = "Io",
                             !.last_line = IF n = 0 THEN @ ELSE lines[n]]]

\* an abort that first writes its error to the client
LoginAbortNotify(c, error, num_tries) ==
    /\ sess' = [sess EXCEPT ![c] = [LoginOver(@) EXCEPT !.pc = "Aborted", !.error = error,
                                                        !.num_tries = num_tries,
                                                        !.last_line = <<"Login error: ", error>>]]
    /\ UNCHANGED <<state, chan, running, created>>

\* an abort that takes the process down with it
LoginAbortExit(c, error, num_tries) ==
    /\ sess' = [sess EXCEPT ![c] = [LoginOver(@) EXCEPT !.pc = "Aborted", !.error = error,
                                                        !.num_tries = num_tries]]
    /\ running' = FALSE
    /\ UNCHANGED <<state, chan, created>>

\* the task returns Err(error) from login, and process returns it
LoginAbort(c, error, num_tries) ==
    /\ sess' = [sess EXCEPT ![c] = [LoginOver(@) EXCEPT !.pc = "Aborted", !.error = error,
                                                        !.num_tries = num_tries]]
    /\ UNCHANGED <<state, chan, running, created>>

\* what a client may make lines.next() yield at a prompt
Items(lines) == {ItemLine(l) : l \in lines} \cup {ItemError, ItemEof}

(***************************************************************************)
(* login                                                                   *)
(***************************************************************************)
\* process starts login, whose first prompt is sent
Start(c) ==
    /\ running /\ sess[c].pc = "Accepted"
    /\ SendAll(c, <<PromptText("Identifier")>>,
               [sess[c] EXCEPT !.pc = "AwaitingIdentifier"], "Aborted")
    /\ UNCHANGED <<state, chan, running, created>>

\* One turn of prompt on item; ok is what follows when prompt returns Ok.
\* Invalid lines beyond MaxRetries are not explored at an uncapped prompt.
PromptRead(c, kind, item, ok) ==
    LET me == sess[c]
        t == PromptTurn(kind, me.found, me.num_tries, item)
    IN  CASE t.result = "Err" -> LoginAbort(c, t.error, t.num_tries)
          [] t.result = "Ok" -> ok
          [] t.result = "Again" ->
                /\ kind = "Password" \/ me.num_tries < MaxRetries
                /\ SendAll(c, <<RepromptText(kind), PromptText(kind)>>,
                           [me EXCEPT !.num_tries = t.num_tries], "Aborted")
                /\ UNCHANGED <<state, chan, running, created>>

\* the identifier prompt (lib.rs 349-357); Ok leads to the lock of
\* person_by_name
ReadIdentifier(c) ==
    /\ running /\ sess[c].pc = "AwaitingIdentifier"
    /\ \E item \in Items(IdLines) :
          PromptRead(c, "Identifier", item,
              /\ sess' = [sess EXCEPT ![c] = [@ EXCEPT !.pc = "Lookup", !.num_tries = 0,
                                                       !.name =
                                                          PromptTurn("Identifier", NoneR, 0,
                                                                     item).line]]
              /\ UNCHANGED <<state, chan, running, created>>)

\* state.lock().await.person_by_name(&name), then the first prompt of the
\* arm taken (lib.rs 360-399)
Lookup(c) ==
    /\ running /\ sess[c].pc = "Lookup"
    /\ LET person == person_by_name(state, sess[c].name)
           me == [sess[c] EXCEPT !.found = person]
       IN  IF person # NoneR
           THEN SendAll(c, <<PromptText("Password")>>,
                        [me EXCEPT !.pc = "AwaitingPassword"], "Aborted")
           ELSE SendAll(c, <<NewHere, PromptText("NewPassword")>>,
                        [me EXCEPT !.pc = "AwaitingNewPassword"], "Aborted")
    /\ UNCHANGED <<state, chan, running, created>>

\* login returned Ok(person): process sends the confirmation and goes on to
\* TCPPeer::new (lib.rs 447-454)
LoggedIn(c, rec) ==
    LET person == PersonNew(rec, TCP(c))
    IN  SendAll(c, <<LoggedInAs(person.name)>>,
                [LoginOver(sess[c]) EXCEPT !.pc = "Connecting", !.person = person],
                "Failed")

\* the password prompt of a known user (lib.rs 366-392)
ReadPassword(c) ==
    /\ running /\ sess[c].pc = "AwaitingPassword"
    /\ \E item \in Items(PwLines) :
          PromptRead(c, "Password", item,
              /\ LoggedIn(c, sess[c].found)
              /\ UNCHANGED <<state, chan, running, created>>)

\* the first password of a new user (lib.rs 399-414)
ReadNewPassword(c) ==
    /\ running /\ sess[c].pc = "AwaitingNewPassword"
    /\ \E item \in Items(PwLines) :
          PromptRead(c, "NewPassword", item,
              /\ SendAll(c, <<ReEnter>>,
                         [sess[c] EXCEPT !.pc = "AwaitingPasswordConfirm", !.num_tries = 0,
                                         !.password1 =
                                            PromptTurn("NewPassword", NoneR, 0, item).line],
                         "Aborted")
              /\ UNCHANGED <<state, chan, running, created>>)

\* the confirmation of a new user's password (lib.rs 416-433)
ReadConfirm(c) ==
    /\ running /\ sess[c].pc = "AwaitingPasswordConfirm"
    /\ \E item \in Items(PwLines) :
          IF item.kind # "Line" THEN LoginAbort(c, "LoginAborted", sess[c].num_tries)
          ELSE IF sess[c].password1 # Trim(item.line)
          THEN /\ sess[c].mismatches < MaxRetries
               /\ SendAll(c, <<DontMatch, NewHere, PromptText("NewPassword")>>,
                          [sess[c] EXCEPT !.pc = "AwaitingNewPassword", !.password1 = <<>>,
                                          !.mismatches = @ + 1], "Aborted")
               /\ UNCHANGED <<state, chan, running, created>>
          ELSE /\ sess' = [sess EXCEPT ![c] = [@ EXCEPT !.pc = "Registering",
                                                        !.password2 = item.line,
                                                        !.mismatches = 0]]
               /\ UNCHANGED <<state, chan, running, created>>

\* state.lock().await.new_person(&name, &password1) (lib.rs 423-425): the
\* task panics on the assert!, or login returns the new Person
Register(c) ==
    /\ running /\ sess[c].pc = "Registering"
    /\ \E salt \in Salts :
          LET r == new_person(state, sess[c].name, sess[c].password1, salt)
          IN  /\ state' = r.st
              /\ IF r.panic
                 THEN /\ sess' = [sess EXCEPT ![c] = [LoginOver(@) EXCEPT !.pc = "Panicked"]]
                      /\ UNCHANGED created
                 ELSE /\ LoggedIn(c, r.person)
                      /\ created' = Append(created, r.person)
    /\ UNCHANGED <<chan, running>>

(***************************************************************************)
(* process after login (lib.rs 454-499)                                    *)
(***************************************************************************)
\* TCPPeer::new (lib.rs 195-213): peer_addr()? may fail; otherwise the
\* channel is made and its sender registered under the person's id
Connect(c) ==
    /\ running /\ sess[c].pc = "Connecting"
    /\ \/ /\ sess' = [sess EXCEPT ![c] = [@ EXCEPT !.pc = "Failed", !.error = "Io"]]
          /\ UNCHANGED <<state, chan>>
       \/ /\ state' = register_connection(state, sess[c].person.id, TCP(c), c)
          /\ chan' = [chan EXCEPT ![c] = <<>>]
          /\ sess' = [sess EXCEPT ![c] = [@ EXCEPT !.pc = "Arriving", !.num_tries = 0]]
    /\ UNCHANGED <<running, created>>

\* state.lock().await.arrive(&mut person, loc) (lib.rs 456-457)
Arrive(c) ==
    /\ running /\ sess[c].pc = "Arriving"
    /\ LET r == arrive(state, chan, Open, sess[c].person, sess[c].person.loc)
       IN  /\ state' = r.st
           /\ chan' = r.ch
           /\ sess' = [sess EXCEPT ![c] =
                          IF r.panic THEN [@ EXCEPT !.pc = "Panicked"]
                          ELSE [@ EXCEPT !.pc = "Loop", !.person = r.p,
                                         !.arrived = TRUE]]
    /\ UNCHANGED <<running, created>>

\* a loop that takes the newest message of rx first
TakeMessageNewest(c) ==
    /\ running /\ sess[c].pc = "Loop"
    /\ chan[c] # <<>>
    /\ LET msg == chan[c][Len(chan[c])]
       IN  /\ chan' = [chan EXCEPT ![c] = SubSeq(@, 1, Len(@) - 1)]
           /\ \/ sess' = [sess EXCEPT ![c] = [@ EXCEPT !.pc = "Failed", !.error = "Io"]]
              \/ sess' = [sess EXCEPT ![c] =
                            [@ EXCEPT !.last_line = render(msg, sess[c].person.id),
                                      !.error = None,
                                      !.pc = IF msg = MsgLogout THEN "LoggedOut"
                                             ELSE "Loop"]]
    /\ UNCHANGED <<state, running, created>>

\* TCPPeer::poll_next finds a message in rx (lib.rs 221-223) and process
\* renders and writes it, closing the transport after Logout (lib.rs 467-478)
TakeMessage(c) ==
    /\ running /\ sess[c].pc = "Loop"
    /\ chan[c] # <<>>
    /\ LET msg == Head(chan[c])
       IN  /\ chan' = [chan EXCEPT ![c] = Tail(@)]
           /\ \/ sess' = [sess EXCEPT ![c] = [@ EXCEPT !.pc = "Failed", !.error = "Io"]]
              \/ sess' = [sess EXCEPT ![c] =
                            [@ EXCEPT !.last_line = render(msg, sess[c].person.id),
                                      !.error = None,
                                      !.pc = IF msg = MsgLogout THEN "LoggedOut"
                                             ELSE "Loop"]]
    /\ UNCHANGED <<state, running, created>>

\* a poll_next that reads the line stream without looking at rx first
ReadLineFirst(c) ==
    /\ running /\ sess[c].pc = "Loop"
    /\ Len(chan[c]) <= MaxQueue
    /\ \A t \in Open \ {c} : Len(chan[t]) < MaxQueue
    /\ \E line \in CmdLines :
          sess' = [sess EXCEPT ![c] = [@ EXCEPT !.pc = "Command", !.cmd = parse(line),
                                                !.error = None]]
    /\ UNCHANGED <<state, chan, running, created>>

\* rx holds nothing, and the line stream yields a line, which is parsed
\* (lib.rs 226-229, 461-462); the command then waits for the lock
ReadLine(c) ==
    /\ running /\ sess[c].pc = "Loop"
    /\ chan[c] = <<>>
    /\ \A t \in Open : Len(chan[t]) < MaxQueue
    /\ \E line \in CmdLines :
          sess' = [sess EXCEPT ![c] = [@ EXCEPT !.pc = "Command", !.cmd = parse(line),
                                                !.error = None]]
    /\ UNCHANGED <<state, chan, running, created>>

\* an Err item that ends the loop
ReadErrorExits(c) ==
    /\ running /\ sess[c].pc = "Loop"
    /\ chan[c] = <<>>
    /\ sess' = [sess EXCEPT ![c] = [@ EXCEPT !.pc = "Cleanup", !.error = "Codec"]]
    /\ UNCHANGED <<state, chan, running, created>>

\* rx holds nothing, and the line stream yields Some(Err(e)): it is logged
\* and the loop goes on (lib.rs 230, 480-482)
ReadError(c) ==
    /\ running /\ sess[c].pc = "Loop"
    /\ chan[c] = <<>>
    /\ sess' = [sess EXCEPT ![c] = [@ EXCEPT !.error = "Codec"]]
    /\ UNCHANGED <<state, chan, running, created>>

\* rx holds nothing, and the line stream yields None: the loop is left and
\* the task waits for the lock (lib.rs 231, 459, 487)
ReadEof(c) ==
    /\ running /\ sess[c].pc = "Loop"
    /\ chan[c] = <<>>
    /\ sess' = [sess EXCEPT ![c] = [@ EXCEPT !.pc = "Cleanup", !.error = None]]
    /\ UNCHANGED <<state, chan, running, created>>

\* Command::run under the lock (command.rs 60-84)
RunLogout(c) ==
    /\ running /\ sess[c].pc = "Command" /\ sess[c].cmd.tag = "logout"
    /\ LET r == logout(state, chan, Open, sess[c].person)
       IN  state' = r.st /\ chan' = r.ch
    /\ sess' = [sess EXCEPT ![c] = [@ EXCEPT !.pc = "Loop", !.cmd = NoneR,
                                              !.arrived = FALSE]]
    /\ UNCHANGED <<running, created>>

RunSay(c) ==
    /\ running /\ sess[c].pc = "Command" /\ sess[c].cmd.tag = "say"
    /\ LET p == sess[c].person
       IN  chan' = roomcast(state, chan, Open, p.loc,
                            MsgSay(p.id, p.name, p.loc, sess[c].cmd.text))
    /\ sess' = [sess EXCEPT ![c] = [@ EXCEPT !.pc = "Loop", !.cmd = NoneR]]
    /\ UNCHANGED <<state, running, created>>

\* a shutdown that is only noted, the process going on
RunShutdownDrain(c) ==
    /\ running /\ sess[c].pc = "Command" /\ sess[c].cmd.tag = "shutdown"
    /\ sess' = [sess EXCEPT ![c] = [@ EXCEPT !.pc = "Loop", !.cmd = NoneR]]
    /\ UNCHANGED <<state, chan, running, created>>

\* State::shutdown: std::process::exit(0)
RunShutdown(c) ==
    /\ running /\ sess[c].pc = "Command" /\ sess[c].cmd.tag = "shutdown"
    /\ running' = FALSE
    /\ UNCHANGED <<state, chan, sess, created>>

\* the block after the loop (lib.rs 486-498): unregister_connection, then
\* depart, under one lock; then the task returns
Cleanup(c) ==
    /\ running /\ sess[c].pc = "Cleanup"
    /\ LET st1 == unregister_connection(state, sess[c].person.id)
           r == depart(st1, chan, Open, sess[c].person)
       IN  state' = r.st /\ chan' = r.ch
    /\ sess' = [sess EXCEPT ![c] = [@ EXCEPT !.pc = "Disconnected", !.arrived = FALSE]]
    /\ UNCHANGED <<running, created>>

Next ==
    \E c \in Conns :
        \/ Start(c)
        \/ ReadIdentifier(c)
        \/ Lookup(c)
        \/ ReadPassword(c)
        \/ ReadNewPassword(c)
        \/ ReadConfirm(c)
        \/ Register(c)
        \/ Connect(c)
        \/ Arrive(c)
        \/ TakeMessage(c)
        \/ ReadLine(c)
        \/ ReadError(c)
        \/ ReadEof(c)
        \/ RunLogout(c)
        \/ RunSay(c)
        \/ RunShutdown(c)
        \/ Cleanup(c)

Spec == Init /\ [][Next]_vars

(***************************************************************************)
(* Properties.                                                             *)
(***************************************************************************)
\* the tasks in the steady-state loop or leaving it
InLoop(c) == sess[c].pc \in {"Loop", "Command", "Cleanup"}

\* connection c's channel is the one registered for some identity
HasQueue(c) == \E i \in DOMAIN state.queues : state.queues[i] = c

\* sessions c and d are of one identity
SameIdentity(c, d) ==
    /\ sess[c].person # NoneR /\ sess[d].person # NoneR
    /\ sess[c].person.id = sess[d].person.id

\* C1 as claimed: every task that has arrived and not yet ended has its
\* Person in the presence set of room r exactly when its loc is r.
C1_LiveMembership ==
    \A c \in Conns : InLoop(c) =>
        \A r \in DOMAIN state.rooms :
            (sess[c].person \in state.rooms[r]) <=> (sess[c].person.loc = r)

\* C1, amended: a task that has logged in and not ended has its Person in
\* the presence set of room r exactly when its loc is r and it has called
\* arrive and not since called depart (by its Logout command or by the
\* cleanup after a disconnect); from its Logout command to the end of the
\* session its Person is in no room's set.
C1_Membership ==
    \A c \in Conns : (sess[c].person # NoneR /\ ~Ended(c)) =>
        \A r \in DOMAIN state.rooms :
            (sess[c].person \in state.rooms[r])
                <=> (sess[c].arrived /\ sess[c].person.loc = r)

\* of two sessions of one identity in their loops, one is in the room and
\* the other has departed by its Logout command
C1_Witness ==
    \E c, d \in Conns :
        /\ c # d /\ SameIdentity(c, d)
        /\ sess[c].arrived /\ sess[c].pc = "Loop"
        /\ ~sess[d].arrived /\ sess[d].pc = "Loop"

\* C2: the records new_person returned have strictly increasing, so
\* pairwise distinct, ids; the name index holds exactly their names, each
\* mapped to the id of the record that carries the name.
C2_UniqueIds ==
    /\ \A i, j \in 1..Len(created) : i < j => created[i].id < created[j].id
    /\ DOMAIN state.names = {created[i].name : i \in 1..Len(created)}
    /\ \A i \in 1..Len(created) :
          /\ state.names[created[i].name] = created[i].id
          /\ created[i].id \in DOMAIN state.people
          /\ state.people[created[i].id].name = created[i].name
    /\ \A i \in 1..Len(created) : created[i].id < state.next_id

\* two registrations have succeeded
C2_Witness == Len(created) >= 2

\* C3 as claimed: a Say command run by a session in room R puts the message
\* on the channel of every session present in R and on no other channel.
C3_SayReachesOccupants ==
    [][\A c \in Conns : RunSay(c) =>
          LET R == sess[c].person.loc
              msg == MsgSay(sess[c].person.id, sess[c].person.name, R, sess[c].cmd.text)
          IN  \A t \in Conns :
                 IF ~Ended(t) /\ sess[t].person # NoneR /\ sess[t].person \in state.rooms[R]
                 THEN /\ Len(chan'[t]) > Len(chan[t])
                      /\ SubSeq(chan'[t], 1, Len(chan[t])) = chan[t]
                      /\ \A k \in (Len(chan[t]) + 1)..Len(chan'[t]) : chan'[t][k] = msg
                 ELSE chan'[t] = chan[t]]_vars

C6_RetryCap ==
    [][\A c \in Conns : sess[c].pc = "AwaitingPassword" =>
          LET n == sess[c].num_tries
              me == sess'[c]
          IN  /\ n < MaxPasswordTries
              /\ me.pc \in {"AwaitingPassword", "Connecting", "Failed", "Aborted"}
              /\ me.pc = "AwaitingPassword"
                    => me.num_tries \in {n, n + 1} /\ me.num_tries < MaxPasswordTries
              /\ me.pc = "Connecting"
                    => me.person.id = sess[c].found.id /\ me.num_tries = n
              /\ me.error = "TooManyPasswordAttempts"
                    <=> (me.pc = "Aborted" /\ n = MaxPasswordTries - 1
                            /\ me.num_tries = MaxPasswordTries)]_vars

\* a session was aborted on its third wrong password
C6_Witness ==
    \E c \in Conns :
        /\ sess[c].pc = "Aborted" /\ sess[c].error = "TooManyPasswordAttempts"
        /\ sess[c].num_tries = MaxPasswordTries

\* C7 as claimed: the Logout command of a session departs its person,
\* removes the registration of its identity and leaves a Logout message as
\* the last message on the channel that session itself consumes.
C7_LogoutReachesSelf ==
    [][\A c \in Conns : RunLogout(c) =>
          /\ \A r \in DOMAIN state'.rooms : sess[c].person \notin state'.rooms[r]
          /\ sess[c].person.id \notin DOMAIN state'.queues
          /\ chan'[c] # <<>>
          /\ chan'[c][Len(chan'[c])] = MsgLogout]_vars

ProtocolAborts == {"LoginAborted", "TooManyPasswordAttempts"}

\* C9 as claimed: the step by which a login aborts on a protocol-abort
\* condition writes a line to the client.
C9_AbortWritesLine ==
    [][\A c \in Conns :
          (sess[c].pc # "Aborted" /\ sess'[c].pc = "Aborted"
              /\ sess'[c].error \in ProtocolAborts)
             => sess'[c].last_line # sess[c].last_line]_vars

\* C9, amended: no protocol-abort condition of login writes a line to the
\* client: the last line the client was sent is the prompt it did not
\* answer, "Password: " when the attempts were too many; the error goes to
\* the log of the server only.
C9_AbortWritesNothing ==
    [][\A c \in Conns :
          (sess[c].pc # "Aborted" /\ sess'[c].pc = "Aborted"
              /\ sess'[c].error \in ProtocolAborts)
             => /\ sess'[c].last_line = sess[c].last_line
                /\ sess[c].last_line \in {PromptText("Identifier"), PromptText("Password"),
                                          PromptText("NewPassword"), ReEnter}
                /\ sess'[c].error = "TooManyPasswordAttempts"
                      => sess[c].last_line = PromptText("Password")]_vars

\* a login was aborted at the password prompt, the prompt being the last
\* line its client was sent
C9_Witness ==
    \E c \in Conns :
        /\ sess[c].pc = "Aborted" /\ sess[c].error \in ProtocolAborts
        /\ sess[c].last_line = PromptText("Password")

\* C10: the step by which a login ends in Aborted changes nothing but that
\* session: the store (identities, rooms, peers, queues), the channels, the
\* process and every other session are as they were.
C10_AbortIsLocal ==
    [][\A c \in Conns :
          (sess[c].pc # "Aborted" /\ sess'[c].pc = "Aborted")
             => /\ state' = state /\ chan' = chan
                /\ running' = running /\ created' = created
                /\ \A d \in Conns \ {c} : sess'[d] = sess[d]]_vars

\* a login has aborted while another session is in the room, in its loop
C10_Witness ==
    \E c, d \in Conns :
        /\ c # d
        /\ sess[c].pc = "Aborted" /\ sess[c].error \in ProtocolAborts
        /\ sess[d].pc = "Loop" /\ sess[d].arrived
        /\ running

(***************************************************************************)
(* The store operations called directly, as a test or another front end    *)
(* calls them: two people are registered and connected, each holds a       *)
(* Person whose loc is any room id, and arrive, depart and roomcast are    *)
(* called with any room id.  Room AbsentLoc is not in the room table.      *)
(***************************************************************************)
\* a RoomId that State::new does not insert
AbsentLoc == 1

RoomIds == {INITIAL_LOC, AbsentLoc}

\* the store after new_person for "@a" and "@b" and a register_connection
\* for each: person c - 1 is on connection c
RECURSIVE StorePeople(_)
StorePeople(n) ==
    IF n = 0 THEN StateNew
    ELSE LET st == StorePeople(n - 1)
             r == new_person(st, IF n = 1 THEN NameA ELSE NameB \o [k \in 1..(n - 2) |-> "0"],
                             PwGood, "salt1")
         IN  register_connection(r.st, r.person.id, TCP(n), n)

StoreInit ==
    /\ state = StorePeople(NumConns)
    /\ chan = [c \in Conns |-> <<>>]
    /\ \E locs \in [Conns -> RoomIds] :
          sess = [c \in Conns |->
                    [SessNew EXCEPT !.pc = "Loop",
                                    !.person = [PersonNew(state.people[c - 1], TCP(c))
                                                   EXCEPT !.loc = locs[c]]]]
    /\ running = TRUE
    /\ created = <<>>

\* no channel is longer than the bound allows another call to make it
StoreRoom == \A t \in Conns : Len(chan[t]) <= MaxQueue

\* state.arrive(&mut person, loc)
StoreArrive(c, loc) ==
    /\ sess[c].pc = "Loop" /\ StoreRoom
    /\ LET r == arrive(state, chan, Open, sess[c].person, loc)
       IN  /\ state' = r.st
           /\ chan' = r.ch
           /\ sess' = [sess EXCEPT ![c] = [@ EXCEPT !.pc = IF r.panic THEN "Panicked" ELSE "Loop",
                                                    !.person = r.p,
                                                    !.arrived = ~r.panic]]
    /\ UNCHANGED <<running, created>>

\* state.depart(&person)
StoreDepart(c) ==
    /\ sess[c].pc = "Loop" /\ StoreRoom
    /\ LET r == depart(state, chan, Open, sess[c].person)
       IN  state' = r.st /\ chan' = r.ch
    /\ sess' = [sess EXCEPT ![c] = [@ EXCEPT !.arrived = FALSE]]
    /\ UNCHANGED <<running, created>>

\* state.roomcast(loc, Message::Say { .. })
StoreRoomcast(c, loc) ==
    /\ sess[c].pc = "Loop" /\ StoreRoom
    /\ LET p == sess[c].person
       IN  chan' = roomcast(state, chan, Open, loc, MsgSay(p.id, p.name, loc, <<"h", "i">>))
    /\ UNCHANGED <<state, sess, running, created>>

\* state.register_connection(person.id, conn, tx), with a new channel
StoreRegister(c) ==
    /\ sess[c].pc = "Loop"
    /\ sess[c].person.id \notin DOMAIN state.queues
    /\ state' = register_connection(state, sess[c].person.id, TCP(c), c)
    /\ chan' = [chan EXCEPT ![c] = <<>>]
    /\ UNCHANGED <<sess, running, created>>

\* state.unregister_connection(person.id)
StoreUnregister(c) ==
    /\ sess[c].pc = "Loop"
    /\ sess[c].person.id \in DOMAIN state.queues
    /\ state' = unregister_connection(state, sess[c].person.id)
    /\ UNCHANGED <<chan, sess, running, created>>

StoreNext ==
    \E c \in Conns, loc \in RoomIds :
        \/ StoreArrive(c, loc)
        \/ StoreDepart(c)
        \/ StoreRoomcast(c, loc)
        \/ StoreRegister(c)
        \/ StoreUnregister(c)

StoreSpec == StoreInit /\ [][StoreNext]_vars

\* C11 as claimed: arrive, depart and roomcast called with a room id that
\* is not in the room table leave every room set and every queue as they
\* were, and the caller goes on running.
C11_RoomMissIsHarmless ==
    [][\A c \in Conns, loc \in RoomIds :
          /\ (StoreArrive(c, loc)
                 /\ (loc \notin DOMAIN state.rooms
                        \/ sess[c].person.loc \notin DOMAIN state.rooms))
                => (state'.rooms = state.rooms /\ chan' = chan /\ sess'[c].pc = "Loop")
          /\ (StoreDepart(c) /\ sess[c].person.loc \notin DOMAIN state.rooms)
                => (state'.rooms = state.rooms /\ chan' = chan /\ sess'[c].pc = "Loop")
          /\ (StoreRoomcast(c, loc) /\ loc \notin DOMAIN state.rooms)
                => (state'.rooms = state.rooms /\ chan' = chan /\ sess'[c].pc = "Loop")]_vars

\* C12 as claimed: a registration call made for a name that another
\* session inserted after this session's person_by_name found it free
\* succeeds as well.
C12_BothRegistrationsSucceed ==
    [][\A c \in Conns : (Register(c) /\ sess[c].name \in DOMAIN state.names) =>
          /\ sess'[c].pc # "Panicked"
          /\ Len(created') = Len(created) + 1]_vars

\* C12, amended: when two sessions register the same previously unknown
\* name concurrently and the second session's person_by_name precedes the
\* first session's new_person, only the first call succeeds: the second
\* new_person takes a fresh id and then fails its assertion that the name is
\* free, the second session's task panics, and the name index, the records
\* and the list of created people are as the first call left them.  A call
\* for a free name creates the record under the next id.  No two created
\* records carry one name.
C12_SecondRegistrationPanics ==
    [][/\ \A c \in Conns : Register(c) =>
             IF sess[c].name \in DOMAIN state.names
             THEN /\ sess'[c].pc = "Panicked"
                  /\ created' = created
                  /\ state'.names = state.names
                  /\ state'.people = state.people
                  /\ state'.next_id = state.next_id + 1
             ELSE /\ Len(created') = Len(created) + 1
                  /\ created'[Len(created')].name = sess[c].name
                  /\ created'[Len(created')].id = state.next_id
                  /\ state'.names[sess[c].name] = state.next_id
       /\ \A i, j \in 1..Len(created') :
             i # j => created'[i].name # created'[j].name]_vars

\* the second of two racing registrations has panicked: one record exists
\* and two ids were taken
C12_Witness ==
    \E c \in Conns :
        /\ sess[c].pc = "Panicked"
        /\ Len(created) = 1
        /\ state.next_id = 2
        /\ DOMAIN state.people = {0}

\* C13: after every step of the program the identities with a registered
\* connection are the identities with a registered queue; the step that
\* registers a session adds the connection and the queue of its identity
\* together, and the cleanup after a disconnect and the Logout command each
\* leave the identity with neither.
C13_PeerIffQueue ==
    [][/\ DOMAIN state'.peers = DOMAIN state'.queues
       /\ \A c \in Conns :
             /\ (Connect(c) /\ sess'[c].pc = "Arriving") =>
                   /\ sess[c].person.id \in DOMAIN state'.peers
                   /\ state'.peers[sess[c].person.id] = TCP(c)
                   /\ state'.queues[sess[c].person.id] = c
                   /\ \A i \in DOMAIN state.peers \ {sess[c].person.id} :
                         i \in DOMAIN state'.peers
             /\ (Cleanup(c) \/ RunLogout(c)) =>
                   /\ sess[c].person.id \notin DOMAIN state'.peers
                   /\ sess[c].person.id \notin DOMAIN state'.queues
                   /\ DOMAIN state'.peers = DOMAIN state.peers \ {sess[c].person.id}]_vars

\* a session has logged out, its identity has neither connection nor
\* queue, and another identity still has both
C13_Witness ==
    \E c, d \in Conns :
        /\ sess[c].pc = "LoggedOut"
        /\ sess[c].person.id \notin DOMAIN state.peers \cup DOMAIN state.queues
        /\ sess[d].person # NoneR
        /\ sess[d].person.id # sess[c].person.id
        /\ sess[d].person.id \in DOMAIN state.peers \cap DOMAIN state.queues

\* C14: a Say command sends its message to the queue registered for every
\* occupant of the room whose receiver still exists, whatever other
\* occupants there are whose receiver was dropped or whose identity has no
\* queue; the channels of dropped receivers are as they were.
C14_RoomcastSkipsFailures ==
    [][\A c \in Conns : RunSay(c) =>
          LET p == sess[c].person
              msg == MsgSay(p.id, p.name, p.loc, sess[c].cmd.text)
          IN  /\ \A q \in state.rooms[p.loc] :
                    (q.id \in DOMAIN state.queues /\ state.queues[q.id] \in Open)
                       => LET t == state.queues[q.id]
                          IN  /\ Len(chan'[t]) > Len(chan[t])
                              /\ chan'[t][Len(chan'[t])] = msg
              /\ \A t \in Conns \ Open : chan'[t] = chan[t]]_vars

\* session d failed on a write before it took the Arrive of c, and is
\* still listed in the room with its queue registered; c has then spoken and
\* holds its own Say, which was not delivered to d
C14_Witness ==
    \E c, d \in Conns :
        /\ c # d
        /\ sess[d].pc = "Failed" /\ sess[d].person # NoneR
        /\ sess[d].person \in state.rooms[sess[d].person.loc]
        /\ sess[d].person.id \in DOMAIN state.queues
        /\ state.queues[sess[d].person.id] = d
        /\ sess[c].pc = "Loop" /\ sess[c].arrived
        /\ sess[c].person.id # sess[d].person.id
        /\ chan[d] = <<MsgArrive(sess[c].person.id, sess[c].person.name, sess[c].person.loc)>>
        /\ chan[c] # <<>>
        /\ chan[c][Len(chan[c])].type = "Say"

\* C15 as claimed, its guarantee that every message enqueued for a running
\* session is written, in the form a finite run refutes: once the server
\* has stopped, no running session is left with a message in its queue.
C15_EveryMessageWritten ==
    ~running => \A c \in Open : chan[c] = <<>>

\* C15, amended: the messages a session writes are the messages of its
\* queue in the order in which they were enqueued: a step changes a queue
\* only by adding messages at its end, behind those that wait, or by taking
\* its first message, whose rendering is then the line written (unless the
\* write fails); a session with a waiting message takes it before it reads
\* anything from its client.  A message still waiting when the server shuts
\* down, when a write of the session fails or when the session returns at
\* a Logout message is never written.
C15_QueueIsFifo ==
    [][\A c \in Conns :
          /\ chan'[c] # chan[c] =>
                \/ /\ Len(chan'[c]) > Len(chan[c])
                   /\ SubSeq(chan'[c], 1, Len(chan[c])) = chan[c]
                \/ /\ sess[c].pc = "Loop"
                   /\ chan'[c] = Tail(chan[c])
                   /\ \/ sess'[c].pc = "Failed"
                      \/ /\ sess'[c].last_line = render(Head(chan[c]), sess[c].person.id)
                         /\ sess'[c].pc = IF Head(chan[c]).type = "Logout"
                                          THEN "LoggedOut" ELSE "Loop"
          /\ (sess[c].pc = "Loop" /\ chan[c] # <<>> /\ sess'[c] # sess[c])
                => chan'[c] = Tail(chan[c])
          /\ (sess[c].pc = "Loop" /\ sess'[c].last_line # sess[c].last_line)
                => (chan[c] # <<>>
                       /\ sess'[c].last_line = render(Head(chan[c]), sess[c].person.id))]_vars

\* a session has written the Arrive of another person, which was enqueued
\* first, and the Say enqueued behind it waits
C15_Witness ==
    \E c, d \in Conns :
        /\ c # d /\ sess[c].pc = "Loop" /\ sess[d].person # NoneR
        /\ sess[d].person.id # sess[c].person.id
        /\ sess[c].last_line = sess[d].person.name \o <<" arrived.">>
        /\ chan[c] # <<>>
        /\ chan[c][1].type = "Say"

\* C16 as claimed, its last part: between its login confirmation and the
\* end of its connection the last line a client has received is the
\* confirmation or the empty line.
C16_OnlyEmptyLine ==
    \A c \in Conns :
        (sess[c].person # NoneR /\ sess[c].pc \in {"Arriving", "Loop", "Command", "Cleanup"})
            => sess[c].last_line \in {LoggedInAs(sess[c].person.name), <<>>}

\* C16, amended: the Shutdown command stops the whole server at once and
\* changes nothing else: queues are not drained, and after it no session
\* takes any step, so none processes a line and no client is sent one.
\* Before it a client receives the renderings of the messages of its room;
\* only a client that is the one logged-in session of the server has
\* received, since its login confirmation, nothing but the empty line (its
\* own Arrive) and the echoes of what it said itself.
C16_ShutdownStopsAll ==
    [][/\ \A c \in Conns : RunShutdown(c) =>
             ~running' /\ state' = state /\ chan' = chan /\ sess' = sess
       /\ ~running => (state' = state /\ chan' = chan /\ sess' = sess /\ ~running')
       /\ \A c \in Conns :
             (/\ sess'[c].pc \in {"Arriving", "Loop", "Command", "Cleanup"}
              /\ \A d \in Conns \ {c} : sess'[d].person = NoneR)
                => sess'[c].last_line \in
                      {LoggedInAs(sess'[c].person.name), <<>>}
                         \cup {<<"You say, '">> \o Trim(l) \o <<"'">> : l \in CmdLines}]_vars

\* the server was shut down by one session while a message waited in the
\* queue of another, running, session
C16_Witness ==
    \E c, d \in Conns :
        /\ c # d /\ ~running
        /\ sess[c].pc = "Command" /\ sess[c].cmd.tag = "shutdown"
        /\ sess[d].pc = "Loop"
        /\ chan[d] # <<>>

\* C17 as claimed: a session is about to create its record only with a
\* first password of length at least 8 and a confirmation line equal to it.
C17_ConfirmationEqual ==
    \A c \in Conns : sess[c].pc = "Registering" =>
        /\ Len(sess[c].password1) >= MinPasswordLen
        /\ sess[c].password2 = sess[c].password1

\* C17, amended: in the unknown-user path a record is created only by a
\* session whose first password, trimmed, has length at least 8 and whose
\* confirmation line, trimmed, is equal to it; the record carries that
\* password.  A confirmation that differs creates no record and returns the
\* session to the first-password prompt; it never aborts the login, which
\* at the confirmation aborts only on a read failure, disconnect or failed
\* write.
C17_RegistersAfterConfirm ==
    [][/\ \A c \in Conns :
             /\ sess'[c].pc = "Registering" =>
                   /\ sess[c].pc \in {"AwaitingPasswordConfirm", "Registering"}
                   /\ Len(sess'[c].password1) >= MinPasswordLen
                   /\ sess'[c].password1 = Trim(sess'[c].password1)
                   /\ Trim(sess'[c].password2) = sess'[c].password1
             /\ (sess[c].pc = "AwaitingPasswordConfirm"
                    /\ sess'[c].pc = "AwaitingNewPassword") =>
                   /\ state' = state /\ created' = created
                   /\ sess'[c].last_line = PromptText("NewPassword")
                   /\ sess'[c].name = sess[c].name
             /\ (sess[c].pc = "AwaitingPasswordConfirm" /\ sess'[c].pc = "Aborted") =>
                   sess'[c].error \in {"LoginAborted", "Io"}
       /\ created' # created =>
             \E c \in Conns :
                 /\ sess[c].pc = "Registering"
                 /\ created' = Append(created, created'[Len(created')])
                 /\ created'[Len(created')].name = sess[c].name
                 /\ verify_encoded(created'[Len(created')].password, sess[c].password1)]_vars

\* a session is about to register on a confirmation line that equals its
\* first password only once trimmed, while a record created earlier exists
C17_Witness ==
    \E c \in Conns :
        /\ sess[c].pc = "Registering"
        /\ sess[c].password2 # sess[c].password1
        /\ Len(created) >= 1

\* C18: a line read at the identifier prompt is accepted exactly when it
\* holds an '@', which is when its trimmed text is not empty and holds one;
\* a line not accepted is counted and answered by the reprompt, however
\* many came before it.  So a session leaves the identifier prompt for the
\* lookup only with a trimmed, non-empty name holding '@', stays at the
\* prompt after an invalid line, and aborts there only when a read fails,
\* the client disconnects or a write fails: never for the lines it sent.
C18_IdentifierPrompt ==
    [][/\ \A l \in IdLines, n \in 0..(MaxPasswordTries + MaxRetries) :
             LET t == PromptTurn("Identifier", NoneR, n, ItemLine(l))
             IN  IF \E i \in 1..Len(l) : l[i] = "@"
                 THEN t.result = "Ok" /\ t.line # <<>> /\ Contains(t.line, "@")
                 ELSE t.result = "Again" /\ t.num_tries = n + 1
       /\ \A c \in Conns : sess[c].pc = "AwaitingIdentifier" =>
             /\ sess'[c].pc \in {"AwaitingIdentifier", "Lookup", "Aborted"}
             /\ sess'[c].pc = "Lookup" =>
                   /\ sess'[c].name # <<>>
                   /\ Contains(sess'[c].name, "@")
                   /\ ~IsSpace(sess'[c].name[1])
                   /\ ~IsSpace(sess'[c].name[Len(sess'[c].name)])
             /\ (sess'[c].pc = "AwaitingIdentifier" /\ sess'[c] # sess[c]) =>
                   /\ sess'[c].num_tries = sess[c].num_tries + 1
                   /\ sess'[c].last_line = PromptText("Identifier")
             /\ sess'[c].pc = "Aborted" => sess'[c].error \in {"LoginAborted", "Io"}]_vars

\* a session was reprompted for its identifier and is still at the prompt,
\* and another was let through with a name that came with a leading space
C18_Witness ==
    \E c, d \in Conns :
        /\ sess[c].pc = "AwaitingIdentifier" /\ sess[c].num_tries >= 1
        /\ sess[d].pc = "Lookup" /\ sess[d].name = NameB

(***************************************************************************)
(* Command::parse and Message::render applied to arguments drawn from      *)
(* bounded sets.  sess is the call: its function, its arguments and, once  *)
(* done, its result.                                                       *)
(***************************************************************************)
Pads == {<<>>, <<" ">>, <<" ", " ">>, <<"\t">>}

Words ==
    {<<>>, ShutdownStr, LogoutStr, <<"h", "i">>, <<"h", "i", " ", "h", "i">>,
     ShutdownStr \o <<" ", "x">>, LogoutStr \o LogoutStr, <<"S">> \o Tail(ShutdownStr),
     <<"l", "o", "g">>}

ParseLines == {a \o w \o b : a \in Pads, w \in Words, b \in Pads}

PersonIds == 0..NumConns

RenderMessages ==
    {MsgArrive(i, n, INITIAL_LOC) : i \in PersonIds, n \in {NameA, NameB}}
        \cup {MsgDepart(i, n, INITIAL_LOC) : i \in PersonIds, n \in {NameA, NameB}}
        \cup {MsgSay(i, n, INITIAL_LOC, t) :
                    i \in PersonIds, n \in {NameA, NameB}, t \in {<<>>, <<"h", "i">>}}
        \cup {MsgLogout}

FnInit ==
    /\ state = StateNew
    /\ chan = [c \in Conns |-> <<>>]
    /\ running = TRUE
    /\ created = <<>>
    /\ \/ \E l \in ParseLines :
             sess = [fn |-> "parse", line |-> l, done |-> FALSE, out |-> NoneR]
       \/ \E m \in RenderMessages, r \in PersonIds :
             sess = [fn |-> "render", message |-> m, receiver |-> r,
                     done |-> FALSE, out |-> <<>>]

\* Command::parse(line)
CallParse ==
    /\ sess.fn = "parse" /\ ~sess.done
    /\ sess' = [sess EXCEPT !.done = TRUE, !.out = parse(sess.line)]
    /\ UNCHANGED <<state, chan, running, created>>

\* message.render(receiver)
CallRender ==
    /\ sess.fn = "render" /\ ~sess.done
    /\ sess' = [sess EXCEPT !.done = TRUE, !.out = render(sess.message, sess.receiver)]
    /\ UNCHANGED <<state, chan, running, created>>

FnNext == CallParse \/ CallRender

FnSpec == FnInit /\ [][FnNext]_vars

\* C19: parse returns a command for every line.  With the line split into
\* leading whitespace, a core that neither begins nor ends with whitespace,
\* and trailing whitespace, the command is Shutdown when the core is
\* "shutdown", Logout when it is "logout", and otherwise Say with the core
\* as its text; the empty line gives Say with the empty text.
C19_ParseTotal ==
    (sess.fn = "parse" /\ sess.done) =>
        LET l == sess.line
            o == sess.out
        IN  /\ o.tag \in {"shutdown", "logout", "say"}
            /\ l = <<>> => o = [tag |-> "say", text |-> <<>>]
            /\ \E i, j \in 0..Len(l) :
                  /\ i + j <= Len(l) \/ (i = Len(l) /\ j = Len(l))
                  /\ \A k \in 1..i : IsSpace(l[k])
                  /\ \A k \in (Len(l) - j + 1)..Len(l) : IsSpace(l[k])
                  /\ LET core == IF i + j <= Len(l) THEN SubSeq(l, i + 1, Len(l) - j)
                                 ELSE <<>>
                     IN  /\ core # <<>> => ~IsSpace(core[1]) /\ ~IsSpace(core[Len(core)])
                         /\ CASE core = ShutdownStr -> o = [tag |-> "shutdown"]
                              [] core = LogoutStr -> o = [tag |-> "logout"]
                              [] OTHER -> o = [tag |-> "say", text |-> core]

\* "logout" between a leading space and a trailing tab was parsed
C19_Witness ==
    /\ sess.fn = "parse" /\ sess.done
    /\ sess.line = <<" ">> \o LogoutStr \o <<"\t">>
    /\ sess.out.tag = "logout"

\* C20: an Arrive or Depart about person X renders as the empty string for
\* receiver X, and for any other receiver as the name followed by
\* " arrived." or " left.", which is not empty and begins with the name.
C20_RenderArriveDepart ==
    (sess.fn = "render" /\ sess.done /\ sess.message.type \in {"Arrive", "Depart"}) =>
        LET m == sess.message
            o == sess.out
        IN  IF m.id = sess.receiver THEN o = <<>>
            ELSE /\ o # <<>>
                 /\ Len(o) = Len(m.name) + 1
                 /\ SubSeq(o, 1, Len(m.name)) = m.name
                 /\ o[Len(o)] = IF m.type = "Arrive" THEN " arrived." ELSE " left."

\* an Arrive was rendered for the one who arrived, giving the empty string
C20_Witness ==
    /\ sess.fn = "render" /\ sess.done
    /\ sess.message.type = "Arrive"
    /\ sess.message.id = sess.receiver
    /\ sess.out = <<>>

\* C21: a Say with speaker X and text T renders for receiver X as
\* "You say, '" T "'", and for any other receiver as the speaker name the
\* message carries, then " says, '" T "'".  The State holds no person at
\* all when render is called here, so the name can only be the message's.
C21_RenderSay ==
    (sess.fn = "render" /\ sess.done /\ sess.message.type = "Say") =>
        LET m == sess.message
            o == sess.out
            n == IF m.speaker = sess.receiver THEN 0 ELSE Len(m.speaker_name)
        IN  /\ state.people = EmptyMap /\ state.names = EmptyMap
            /\ Len(o) = n + 1 + Len(m.text) + 1
            /\ SubSeq(o, 1, n) = IF m.speaker = sess.receiver THEN <<>> ELSE m.speaker_name
            /\ o[n + 1] = IF m.speaker = sess.receiver THEN "You say, '" ELSE " says, '"
            /\ SubSeq(o, n + 2, Len(o) - 1) = m.text
            /\ o[Len(o)] = "'"

\* a Say of "hi" was rendered for its speaker
C21_Witness ==
    /\ sess.fn = "render" /\ sess.done
    /\ sess.message.type = "Say"
    /\ sess.message.speaker = sess.receiver
    /\ sess.message.text = <<"h", "i">>
    /\ sess.out = <<"You say, '", "h", "i", "'">>

C23_ArriveEffect ==
    [][\A c \in Conns :
          (Arrive(c) /\ sess'[c].pc = "Loop") =>
              LET R == sess[c].person.loc
                  p == sess'[c].person
                  msg == MsgArrive(p.id, p.name, R)
              IN  /\ p.loc = R
                  /\ p \in state'.rooms[R]
                  /\ \A r \in DOMAIN state'.rooms \ {R} : p \notin state'.rooms[r]
                  /\ chan'[c] = Append(chan[c], msg)
                  /\ \A d \in Conns \ {c} :
                        chan'[d] = IF d \in Open /\ sess[d].person \in state.rooms[R]
                                   THEN Append(chan[d], msg)
                                   ELSE chan[d]
                  /\ sess[c].person \in state.rooms[R] => state'.rooms = state.rooms]_vars

\* C24 as claimed: the first message a logged-in session takes from its
\* queue is the Arrive about itself, written as the empty line, and the
\* session parses no command line before it has written that line (until
\* then the last line it wrote is the "Logged in as" line).
C24_FirstIsOwnArrive ==
    [][\A c \in Conns :
          LET p == sess[c].person
              first == sess[c].last_line = LoggedInAs(p.name)
          IN  /\ (ReadLine(c) /\ sess'[c].pc = "Command") => ~first
              /\ (TakeMessage(c) /\ first) =>
                    /\ Head(chan[c]) = MsgArrive(p.id, p.name, p.loc)
                    /\ sess'[c].pc = "Loop" => sess'[c].last_line = <<>>]_vars

\* C25: a session in its loop whose queue holds a message does nothing but
\* take the head of the queue (and write it, or fail to); it turns to the
\* line stream, for a line, an error or the end, only when its queue is
\* empty, and then leaves the queue alone.
C25_QueueFirst ==
    [][\A c \in Conns :
          (sess[c].pc = "Loop" /\ sess'[c] # sess[c]) =>
              IF chan[c] # <<>>
              THEN /\ chan'[c] = Tail(chan[c])
                   /\ sess'[c].pc \in {"Loop", "Failed", "LoggedOut"}
                   /\ sess'[c].cmd = sess[c].cmd
              ELSE /\ chan'[c] = chan[c]
                   /\ sess'[c].pc \in {"Loop", "Command", "Cleanup"}]_vars

\* a session that has written its own Arrive stands in its loop with
\* another message in its queue, while its client may send a line
C25_Witness ==
    \E c \in Conns :
        /\ running /\ sess[c].pc = "Loop"
        /\ sess[c].last_line = <<>>
        /\ chan[c] # <<>>
        /\ Head(chan[c]).type = "Arrive" /\ Head(chan[c]).id # sess[c].person.id

(***************************************************************************)
(* The Mutex of GameState = Arc<Mutex<State>> and the places where a task  *)
(* takes it.  Here state is the Mutex alone: its owner (0: none) and the   *)
(* tasks waiting in lock(), which tokio serves in order of arrival.        *)
(* sess[c] is task c: where it stands (pc), whether it has asked for or    *)
(* holds the lock, what person_by_name found and the command it parsed.    *)
(* A MutexGuard is a temporary of the statement that locks, and is dropped *)
(* at its end; in the block after the loop it is dropped with the block.   *)
(* A panic under the lock unwinds the task and drops the guard with it.    *)
(***************************************************************************)
\* the places where a task waits for its client or writes to it
IoPhases == {"IdPrompt", "PwPrompt", "Confirm", "Loop", "Write"}

\* the statements that lock: lib.rs 360, 423, 204-207, 457, command.rs
\* 65-83, lib.rs 486-494
LockPhases == {"Lookup", "Register", "Connect", "Arrive", "Run", "Cleanup"}

Commands == {"say", "logout", "shutdown"}

TaskNew == [pc |-> "IdPrompt", lock |-> "none", found |-> FALSE, cmd |-> "none"]

LockInit ==
    /\ state = [owner |-> 0, waiters |-> <<>>]
    /\ sess = [c \in Conns |-> TaskNew]
    /\ chan = [c \in Conns |-> <<>>]
    /\ running = TRUE
    /\ created = <<>>

\* A step of a task that needs no lock: a prompt answered or given up, a
\* line written or not, a message or a line or the end found by the loop.
\* A client that sends nothing leaves its task where it is.
TaskIo(c) ==
    /\ running /\ sess[c].pc \in IoPhases
    /\ \E pc \in CASE sess[c].pc = "IdPrompt" -> {"Lookup", "Ended"}
                   [] sess[c].pc = "PwPrompt" ->
                         {IF sess[c].found THEN "Confirm" ELSE "Register", "Ended"}
                   [] sess[c].pc = "Confirm" -> {"Connect", "Ended"}
                   [] sess[c].pc = "Loop" -> {"Write", "Run", "Cleanup"}
                   [] sess[c].pc = "Write" -> {"Loop", "Ended"},
          cmd \in Commands :
          /\ (pc # "Run") => cmd = "say"
          /\ sess' = [sess EXCEPT ![c] = [@ EXCEPT !.pc = pc,
                                                   !.cmd = IF pc = "Run" THEN cmd ELSE "none"]]
    /\ UNCHANGED <<state, chan, running, created>>

\* state.lock(): the task joins those waiting for the Mutex
LockRequest(c) ==
    /\ running /\ sess[c].pc \in LockPhases /\ sess[c].lock = "none"
    /\ state' = [state EXCEPT !.waiters = Append(@, c)]
    /\ sess' = [sess EXCEPT ![c] = [@ EXCEPT !.lock = "waiting"]]
    /\ UNCHANGED <<chan, running, created>>

\* the free Mutex goes to the task that has waited longest
LockGrant ==
    /\ running /\ state.owner = 0 /\ state.waiters # <<>>
    /\ state' = [owner |-> Head(state.waiters), waiters |-> Tail(state.waiters)]
    /\ sess' = [sess EXCEPT ![Head(state.waiters)] = [@ EXCEPT !.lock = "held"]]
    /\ UNCHANGED <<chan, running, created>>

\* where a task stands after its locked statement; Ended after Register or
\* Arrive is the panic of the assert! or the expect
AfterLock(me) ==
    CASE me.pc = "Lookup" -> {"PwPrompt"}
      [] me.pc = "Register" -> {"Confirm", "Ended"}
      [] me.pc = "Connect" -> {"Arrive"}
      [] me.pc = "Arrive" -> {"Loop", "Ended"}
      [] me.pc = "Run" -> {"Loop"}
      [] me.pc = "Cleanup" -> {"Ended"}

\* a guard that lives as long as the match on what person_by_name found
LockedSectionKeep(c) ==
    /\ running /\ sess[c].lock = "held" /\ state.owner = c
    /\ IF sess[c].pc = "Run" /\ sess[c].cmd = "shutdown"
       THEN running' = FALSE /\ UNCHANGED <<state, sess>>
       ELSE /\ \E pc \in AfterLock(sess[c]), found \in BOOLEAN :
                  sess' = [sess EXCEPT ![c] =
                              [@ EXCEPT !.pc = pc,
                                        !.lock = IF sess[c].pc = "Lookup" THEN "held"
                                                 ELSE "none",
                                        !.cmd = "none",
                                        !.found = IF sess[c].pc = "Lookup" THEN found
                                                  ELSE @]]
            /\ state' = IF sess[c].pc = "Lookup" THEN state
                        ELSE [state EXCEPT !.owner = 0]
            /\ UNCHANGED running
    /\ UNCHANGED <<chan, created>>

\* the owner runs its statement on State and drops the guard; shutdown is
\* std::process::exit, called under the lock
LockedSection(c) ==
    /\ running /\ sess[c].lock = "held" /\ state.owner = c
    /\ IF sess[c].pc = "Run" /\ sess[c].cmd = "shutdown"
       THEN running' = FALSE /\ UNCHANGED <<state, sess>>
       ELSE /\ \E pc \in AfterLock(sess[c]), found \in BOOLEAN :
                  sess' = [sess EXCEPT ![c] =
                              [@ EXCEPT !.pc = pc, !.lock = "none", !.cmd = "none",
                                        !.found = IF sess[c].pc = "Lookup" THEN found
                                                  ELSE @]]
            /\ state' = [state EXCEPT !.owner = 0]
            /\ UNCHANGED running
    /\ UNCHANGED <<chan, created>>

LockNext ==
    \/ LockGrant
    \/ \E c \in Conns :
          \/ TaskIo(c)
          \/ LockRequest(c)
          \/ LockedSection(c)

\* The runtime goes on polling a task that can go on, and the Mutex hands
\* itself on; nothing makes a client send.
LockSpec ==
    /\ LockInit /\ [][LockNext]_vars
    /\ WF_vars(LockGrant)
    /\ \A c \in Conns : WF_vars(LockedSection(c))

\* no task that waits for its client or writes to it owns the Mutex or
\* waits for it
NoLockAtIo ==
    \A c \in Conns :
        sess[c].pc \in IoPhases =>
            /\ state.owner # c
            /\ sess[c].lock = "none"
            /\ \A i \in 1..Len(state.waiters) : state.waiters[i] # c

\* C26 as claimed: no task holds the lock while it waits for network input
\* or output, and every task that has asked for the lock gets it, whatever
\* the other tasks and their clients do.
C26_AlwaysGranted ==
    /\ []NoLockAtIo
    /\ \A c \in Conns : (sess[c].lock = "waiting") ~> (sess[c].lock = "held")

\* C26, amended: no task holds the lock while it waits for network input or
\* output, and every task that has asked for the lock gets it unless the
\* process exits first (shutdown exits under the lock).
C26_GrantedUnlessExit ==
    /\ []NoLockAtIo
    /\ \A c \in Conns : (sess[c].lock = "waiting") ~> (sess[c].lock = "held" \/ ~running)

\* one task stands at its password prompt while the other holds the lock
\* for the cleanup after its loop
C26_Witness ==
    \E c, d \in Conns :
        /\ c # d /\ running
        /\ sess[c].pc = "PwPrompt"
        /\ sess[d].pc = "Cleanup" /\ sess[d].lock = "held" /\ state.owner = d

\* C27 as claimed: every Person in a room's set is the Person of a task
\* that has not ended, every registered queue feeds a task that has not
\* ended, and a task that has ended after logging in has its Person in no
\* room and its channel registered for nobody.
C27_OnlyLiveSessions ==
    /\ \A r \in DOMAIN state.rooms : \A p \in state.rooms[r] :
          \E c \in Conns : ~Ended(c) /\ sess[c].person = p
    /\ \A i \in DOMAIN state.queues : ~Ended(state.queues[i])
    /\ \A c \in Conns : (Ended(c) /\ sess[c].person # NoneR) =>
          /\ \A r \in DOMAIN state.rooms : sess[c].person \notin state.rooms[r]
          /\ ~HasQueue(c)

\* C28 as claimed: the one roomcast made by arrive, by a Say command or by
\* the depart of the cleanup after a disconnect makes no channel longer by
\* more than one message.
C28_OneCopyPerQueue ==
    [][\A c \in Conns :
          (Arrive(c) \/ RunSay(c) \/ Cleanup(c)) =>
              \A d \in Conns : Len(chan'[d]) <= Len(chan[d]) + 1]_vars

\* C29 as claimed: a task calls depart, by its Logout command or by the
\* cleanup after a disconnect, only if it has arrived and not departed yet;
\* the call puts no Depart on the task's own channel; and a task that
\* leaves its loop for good has departed.
C29_OneDepart ==
    [][\A c \in Conns :
          /\ (RunLogout(c) \/ Cleanup(c)) =>
                /\ sess[c].arrived
                /\ \A i \in (Len(chan[c]) + 1)..Len(chan'[c]) : chan'[c][i].type # "Depart"
          /\ (InLoop(c) /\ sess'[c].pc \in {"Failed", "LoggedOut", "Disconnected"}) =>
                ~sess'[c].arrived]_vars

\* C30 as claimed: a call of new_person for a name that is registered
\* already fails and leaves names, people and next_id as they were.
C30_FailedRegistrationNoEffect ==
    [][\A c \in Conns :
          (Register(c) /\ sess[c].name \in DOMAIN state.names) =>
              /\ sess'[c].pc = "Panicked"
              /\ state'.names = state.names
              /\ state'.people = state.people
              /\ state'.next_id = state.next_id]_vars

\* C30, amended: a call of new_person for a name that is registered already
\* fails and leaves names and people as they were, but next_id is one more
\* than before: the id was taken before the name was checked.  Nothing else
\* of the State changes, and no record is returned.
C30_FailedRegistrationTakesId ==
    [][\A c \in Conns :
          (Register(c) /\ sess[c].name \in DOMAIN state.names) =>
              /\ sess'[c].pc = "Panicked"
              /\ state'.names = state.names
              /\ state'.people = state.people
              /\ state'.next_id = state.next_id + 1
              /\ state' = [state EXCEPT !.next_id = @ + 1]
              /\ created' = created]_vars

\* a registration has failed: one task has panicked, the other holds the
\* Person of the name's one record, and the counter is two past its id
C30_Witness ==
    \E c, d \in Conns :
        /\ c # d /\ sess[c].pc = "Panicked"
        /\ sess[d].person # NoneR
        /\ sess[d].person.name \in DOMAIN state.names
        /\ state.names[sess[d].person.name] = sess[d].person.id
        /\ state.next_id = sess[d].person.id + 2

=============================================================================
